---- MODULE Spec2Model ----
(***************************************************************************)
(* The reminder core of calender_chatbot.py: check_and_remind and the      *)
(* module-level table SENT_REMINDERS.                                      *)
(*                                                                         *)
(* Time is counted in whole seconds (datetime's microseconds are dropped). *)
(* An aware datetime is a record [wall, off]: the wall-clock reading in    *)
(* seconds and the UTC offset in seconds; the instant it names is          *)
(* wall - off.  A start value of an event is the text the calendar API     *)
(* returned, kept as [kind, fmt, wall, off]: kind is the key present in    *)
(* event['start'] ("dateTime" or "date"), fmt says which parser accepts    *)
(* the text.                                                               *)
(***************************************************************************)
EXTENDS Integers, Sequences, FiniteSets, TLC

(***************************************************************************)
(* Bounds of the model.                                                    *)
(***************************************************************************)
HorizonPolls == 22
MaxRepeat == 2
MaxMissed == 2

(***************************************************************************)
(* Program constants.                                                      *)
(***************************************************************************)
LOCAL_TIMEZONE == 19800
PollSeconds == 60
StartedWindowMinutes == 5
EarlyToleranceSeconds == 10
LateToleranceMinutes == 1
reminder_thresholds == <<15, 5, 1>>

DaySeconds == 24 * 3600
Minutes(n) == n * 60

(***************************************************************************)
(* The keys of a SENT_REMINDERS entry.  The code uses the strings          *)
(* 'started' and 'all_day_today' and the integers 15, 5, 1; the integer    *)
(* keys are written as strings here.                                       *)
(***************************************************************************)
Started == "started"
AllDayToday == "all_day_today"
ThresholdKey(m) ==
  CASE m = 15 -> "15" [] m = 5 -> "5" [] m = 1 -> "1" [] OTHER -> "other"
ThresholdKeys == {ThresholdKey(reminder_thresholds[k]) : k \in DOMAIN reminder_thresholds}
Milestones == {Started, AllDayToday} \cup ThresholdKeys

(***************************************************************************)
(* datetime arithmetic.                                                    *)
(***************************************************************************)
astimezone(dt, tz) == [wall |-> dt.wall - dt.off + tz, off |-> tz]
TimeDeltaReversed(a, b) == (b.wall - b.off) - (a.wall - a.off)

TimeDelta(a, b) == (a.wall - a.off) - (b.wall - b.off)
DateOfUtc(dt) == (dt.wall - dt.off) \div DaySeconds

DateOf(dt) == dt.wall \div DaySeconds
NowLocal(c) == astimezone([wall |-> c, off |-> 0], LOCAL_TIMEZONE)

(***************************************************************************)
(* Parsing.  "iso" is a text datetime.fromisoformat accepts once 'Z' is    *)
(* replaced by '+00:00'; "basic" is a text with an offset written +hhmm,   *)
(* which fromisoformat rejects before Python 3.11 and strptime's %z        *)
(* accepts; "bad" is a text neither accepts.  "ymd" is a date strptime     *)
(* accepts with %Y-%m-%d.                                                  *)
(***************************************************************************)
fromisoformat(s) ==
  IF s.fmt = "iso" THEN [ok |-> TRUE, value |-> [wall |-> s.wall, off |-> s.off]]
  ELSE [ok |-> FALSE, value |-> [wall |-> 0, off |-> 0]]

strptime_z(s) ==
  IF s.fmt = "basic" THEN [ok |-> TRUE, value |-> [wall |-> s.wall, off |-> s.off]]
  ELSE [ok |-> FALSE, value |-> [wall |-> 0, off |-> 0]]

ParseLenient(s) == [ok |-> TRUE, value |-> [wall |-> s.wall, off |-> s.off]]

ParseDateTime(s) ==
  LET first == fromisoformat(s) IN IF first.ok THEN first ELSE strptime_z(s)

strptime_date(s) ==
  IF s.fmt = "ymd" THEN [ok |-> TRUE, value |-> s.wall]
  ELSE [ok |-> FALSE, value |-> 0]

(***************************************************************************)
(* The state table.  An entry is the set of keys stored with True.         *)
(***************************************************************************)
HasFiredStartedOnly(flags, key) == key = Started /\ key \in flags
HasFiredNever(flags, key) == FALSE

HasFired(flags, key) == key \in flags

MarkNothing(flags, key) == flags

MarkFired(flags, key) == flags \cup {key}

EnsureEntryFresh(sent, id) ==
  [i \in DOMAIN sent \cup {id} |-> IF i = id THEN {} ELSE sent[i]]

EnsureEntry(sent, id) ==
  IF id \in DOMAIN sent THEN sent ELSE sent @@ (id :> {})

(***************************************************************************)
(* The windows.                                                            *)
(***************************************************************************)
InStartedWindowStrict(tte) ==
  /\ Minutes(-StartedWindowMinutes) < tte
  /\ tte < 0

InStartedWindow(tte) ==
  /\ Minutes(-StartedWindowMinutes) < tte
  /\ tte <= 0

InThresholdWindowEarlyMinutes(tte, m) ==
  /\ -Minutes(EarlyToleranceSeconds) <= tte - Minutes(m)
  /\ tte - Minutes(m) < Minutes(LateToleranceMinutes)
  /\ tte > 0

InThresholdWindowCatchUp(tte, m) ==
  /\ tte - Minutes(m) < Minutes(LateToleranceMinutes)
  /\ tte > 0

InThresholdWindowNarrow(tte, m) ==
  /\ -EarlyToleranceSeconds <= tte - Minutes(m)
  /\ tte - Minutes(m) < 30
  /\ tte > 0

InThresholdWindow(tte, m) ==
  /\ -EarlyToleranceSeconds <= tte - Minutes(m)
  /\ tte - Minutes(m) < Minutes(LateToleranceMinutes)
  /\ tte > 0

MaxOf(S) == CHOOSE x \in S : \A y \in S : y <= x

RECURSIVE SortDesc(_)
SortDesc(S) ==
  IF S = {} THEN <<>> ELSE <<MaxOf(S)>> \o SortDesc(S \ {MaxOf(S)})

sorted_reverse(seq) == SortDesc({seq[k] : k \in DOMAIN seq})

(***************************************************************************)
(* The threshold loop: the first threshold, largest first, whose window    *)
(* holds and whose flag is unset; 0 when the loop ends without a break.    *)
(***************************************************************************)
RECURSIVE ThresholdScan(_, _, _, _)
ThresholdScan(flags, tte, ths, k) ==
  IF k > Len(ths) THEN 0
  ELSE IF InThresholdWindow(tte, ths[k]) /\ ~HasFired(flags, ThresholdKey(ths[k]))
       THEN ths[k]
       ELSE ThresholdScan(flags, tte, ths, k + 1)

SortedThresholds == sorted_reverse(reminder_thresholds)

ThresholdLoop(flags, tte) == ThresholdScan(flags, tte, SortedThresholds, 1)

minutes_left_ceil(tte) == (tte + 59) \div 60

minutes_left(tte) == tte \div 60

minutes_text(tte) ==
  IF minutes_left(tte) = 0 THEN "less than a minute" ELSE "minutes"

(***************************************************************************)
(* What send_notification is called with: the event, the milestone, and    *)
(* for an upcoming reminder the time left and the local start time that    *)
(* the message reports (at: the local wall-clock reading; 0 for the other  *)
(* messages, which carry no time).  The message of an upcoming reminder    *)
(* reads "less than a minute" or "<minutes> minutes".                      *)
(***************************************************************************)
Notification(id, key, tte, at) ==
  [id |-> id, key |-> key, tte |-> tte, at |-> at,
   minutes |-> IF key \in ThresholdKeys THEN minutes_left(tte) ELSE 0,
   text |-> IF key \in ThresholdKeys THEN minutes_text(tte) ELSE "none"]

(***************************************************************************)
(* send_notification.  notifier is how the call meets the backend: "ok"    *)
(* (plyer is present and notify returns), "raises" (plyer is present and   *)
(* notify raises an Exception) or "absent" (the import of plyer failed).   *)
(* The result says where the reminder was logged and whether an exception  *)
(* leaves send_notification.                                               *)
(***************************************************************************)
Notifiers == {"ok", "raises", "absent"}

send_notification_unguarded(notifier) ==
  CASE notifier = "ok" -> [log |-> "desktop", propagated |-> FALSE]
    [] notifier = "raises" -> [log |-> "none", propagated |-> TRUE]
    [] OTHER -> [log |-> "console", propagated |-> FALSE]

send_notification(notifier) ==
  CASE notifier = "ok" -> [log |-> "desktop", propagated |-> FALSE]
    [] notifier = "raises" -> [log |-> "error, console", propagated |-> FALSE]
    [] OTHER -> [log |-> "console", propagated |-> FALSE]

(***************************************************************************)
(* One iteration of the for loop of check_and_remind.  The result holds    *)
(* the table after the iteration, the notifications sent, the milestones   *)
(* whose window held with the flag already set, whether the iteration      *)
(* ended at the continue of the parse failure, and whether it raised.      *)
(***************************************************************************)
Result(sent, notes, dedup, skip, raise) ==
  [sent |-> sent, notes |-> notes, dedup |-> dedup, skipped |-> skip, raised |-> raise]

(***************************************************************************)
(* A branch that sends: send_notification is called and, when the call     *)
(* returns, the flag is set; an exception leaving the call would leave the *)
(* iteration before the assignment.                                        *)
(***************************************************************************)
SendAndMark(s1, id, key, note, dedup, notifier) ==
  IF send_notification(notifier).propagated
  THEN Result(s1, <<note>>, dedup, FALSE, TRUE)
  ELSE Result([s1 EXCEPT ![id] = MarkFired(s1[id], key)], <<note>>, dedup, FALSE, FALSE)

EvalStarted(s1, id, tte, notifier) ==
  IF ~HasFired(s1[id], Started)
  THEN SendAndMark(s1, id, Started, Notification(id, Started, tte, 0), {}, notifier)
  ELSE Result(s1, <<>>, {<<id, Started>>}, FALSE, FALSE)

EvalThresholds(s1, id, tte, start_local, notifier) ==
  LET m == ThresholdLoop(s1[id], tte)
      held == {k \in s1[id] : \E j \in DOMAIN reminder_thresholds :
                 /\ k = ThresholdKey(reminder_thresholds[j])
                 /\ InThresholdWindow(tte, reminder_thresholds[j])}
  IN IF m # 0
     THEN SendAndMark(s1, id, ThresholdKey(m),
                      Notification(id, ThresholdKey(m), tte, start_local.wall),
                      {<<id, k>> : k \in held}, notifier)
     ELSE Result(s1, <<>>, {<<id, k>> : k \in held}, FALSE, FALSE)

EvalTimed(s1, id, start, now_local, notifier) ==
  LET p == ParseDateTime(start)
      event_start_time_local == astimezone(p.value, LOCAL_TIMEZONE)
      tte == TimeDelta(event_start_time_local, now_local)
  IN IF ~p.ok THEN Result(s1, <<>>, {}, TRUE, FALSE)
     ELSE IF InStartedWindow(tte) THEN EvalStarted(s1, id, tte, notifier)
     ELSE EvalThresholds(s1, id, tte, event_start_time_local, notifier)

EvalAllDayMarksStarted(s1, id, start, now_local, notifier) ==
  LET p == strptime_date(start)
  IN IF ~p.ok THEN Result(s1, <<>>, {}, FALSE, TRUE)
     ELSE IF p.value = DateOf(now_local) /\ ~HasFired(s1[id], AllDayToday)
          THEN SendAndMark(s1, id, Started, Notification(id, AllDayToday, 0, 0), {}, notifier)
          ELSE Result(s1, <<>>, {}, FALSE, FALSE)

EvalAllDay(s1, id, start, now_local, notifier) ==
  LET p == strptime_date(start)
  IN IF ~p.ok THEN Result(s1, <<>>, {}, FALSE, TRUE)
     ELSE IF p.value = DateOf(now_local)
          THEN IF ~HasFired(s1[id], AllDayToday)
               THEN SendAndMark(s1, id, AllDayToday,
                                Notification(id, AllDayToday, 0, 0), {}, notifier)
               ELSE Result(s1, <<>>, {<<id, AllDayToday>>}, FALSE, FALSE)
          ELSE Result(s1, <<>>, {}, FALSE, FALSE)

EvalEvent(sent, event, now_local, notifier) ==
  LET s1 == EnsureEntry(sent, event.id)
  IN IF event.start.kind = "dateTime"
     THEN EvalTimed(s1, event.id, event.start, now_local, notifier)
     ELSE EvalAllDay(s1, event.id, event.start, now_local, notifier)

(***************************************************************************)
(* The for loop over the batch.  An exception leaves the loop: the events  *)
(* after the one that raised are not evaluated.                            *)
(***************************************************************************)
RECURSIVE ForLoop(_, _, _, _, _)
ForLoop(acc, events, i, now_local, notifier) ==
  IF i > Len(events) THEN acc
  ELSE LET r == EvalEvent(acc.sent, events[i], now_local, notifier)
           nxt == [sent |-> r.sent,
                   notes |-> acc.notes \o r.notes,
                   dedup |-> acc.dedup \cup r.dedup,
                   skipped |-> IF r.skipped THEN acc.skipped \cup {events[i].id}
                               ELSE acc.skipped,
                   polled |-> acc.polled \cup {events[i].id},
                   raised |-> r.raised,
                   unevaluated |-> Len(events) - i]
       IN IF r.raised THEN nxt ELSE ForLoop(nxt, events, i + 1, now_local, notifier)

check_and_remind(sent, events, now_local, notifier) ==
  ForLoop([sent |-> sent, notes |-> <<>>, dedup |-> {}, skipped |-> {},
           polled |-> {}, raised |-> FALSE, unevaluated |-> 0],
          events, 1, now_local, notifier)

(***************************************************************************)
(* The events of the model.  Identifier "a" is a timed event: its snapshot *)
(* starts at StartA (written in UTC), or, rescheduled, 16 minutes later at *)
(* StartB (written with the local offset, +hhmm), or carries               *)
(* a text that is no date.  Identifier "b" is an all-day event on the      *)
(* local day of StartA, or carries a text that is no date.                 *)
(***************************************************************************)
Ids == {"a", "b"}
LocalMidnight == DaySeconds - LOCAL_TIMEZONE
StartA == LocalMidnight + Minutes(6)
StartB == StartA + Minutes(16)
EventDay == DateOf(NowLocal(StartA))

TimedA == [kind |-> "dateTime", fmt |-> "iso", wall |-> StartA, off |-> 0]
TimedB == [kind |-> "dateTime", fmt |-> "basic",
           wall |-> StartB + LOCAL_TIMEZONE, off |-> LOCAL_TIMEZONE]
TimedBad == [kind |-> "dateTime", fmt |-> "bad", wall |-> StartA, off |-> 0]
DateOk == [kind |-> "date", fmt |-> "ymd", wall |-> EventDay, off |-> 0]
DateBad == [kind |-> "date", fmt |-> "bad", wall |-> EventDay, off |-> 0]

Event(id, start) == [id |-> id, start |-> start]
Events == {Event("a", TimedA), Event("a", TimedB), Event("a", TimedBad),
           Event("b", DateOk), Event("b", DateBad)}

(***************************************************************************)
(* What a fetch can return: no event, one event, or two events that are    *)
(* snapshots of different identifiers (a list call returns an event once)  *)
(* or the same snapshot twice; in either order.                            *)
(***************************************************************************)
Batches ==
  {<<>>} \cup {<<e>> : e \in Events}
         \cup {p \in {<<e, f>> : e \in Events, f \in Events} :
                 p[1].id # p[2].id \/ p[1] = p[2]}

(***************************************************************************)
(* get_upcoming_events.  A response of the calendar API is its list of     *)
(* items, or an HttpError; the error is caught and the empty list is       *)
(* returned.                                                               *)
(***************************************************************************)
Items(b) == [error |-> FALSE, items |-> b]
HttpError == [error |-> TRUE, items |-> <<>>]
Responses == {Items(b) : b \in Batches} \cup {HttpError}

get_upcoming_events_unguarded(response) ==
  [events |-> response.items, raised |-> response.error]

get_upcoming_events(response) ==
  IF response.error THEN [events |-> <<>>, raised |-> FALSE]
  ELSE [events |-> response.items, raised |-> FALSE]

(***************************************************************************)
(* State.                                                                  *)
(***************************************************************************)
VARIABLES
  notification,    \* TRUE when the import of plyer succeeded
  fetched,         \* last cycle: "init", "items", "none" or "error" (the API's answer)
  failed,          \* SpecCadence: <<id, milestone>> of the calls whose notify raised
  next_run_time,   \* SpecScheduler: the next fire time of the interval trigger
  instances,       \* SpecScheduler: the runs of the job that started and did not finish
  started,         \* SpecScheduler: the fire times at which a run was started
  missed,          \* SpecScheduler: the fire times at which no run was started
  origin,          \* the clock when the process started
  clock,           \* the clock (UTC seconds) read by the last cycle
  SENT_REMINDERS,  \* the state table
  notified,        \* calls of send_notification so far, per identifier and milestone
  emitted,         \* the notifications of the last cycle, in order
  deduped,         \* last cycle: milestones in their window with the flag already set
  skipped,         \* last cycle: identifiers skipped for an unparseable dateTime
  polled,          \* last cycle: identifiers the loop reached
  outcome,         \* last cycle: "init", "empty", "done" or "raised"
  unevaluated,     \* last cycle: events of the batch the loop never reached
  overdue          \* <<id, start instant>> of the snapshots evaluated at or after their start

vars == <<notification, fetched, failed, next_run_time, instances, started, missed, origin, clock, SENT_REMINDERS, notified, emitted, deduped, skipped,
          polled, outcome, unevaluated, overdue>>

(***************************************************************************)
(* The instant a parseable dateTime text names, for the history variable   *)
(* overdue; the code's own arithmetic is TimeDelta and astimezone.         *)
(***************************************************************************)
Instant(start) == start.wall - start.off
IsTimed(event) == event.start.kind = "dateTime" /\ event.start.fmt # "bad"

TteA == StartA - clock

RECURSIVE Tally(_, _)
Tally(n, notes) ==
  IF notes = <<>> THEN n
  ELSE Tally([n EXCEPT ![Head(notes).id][Head(notes).key] = @ + 1], Tail(notes))

InitAt(c) ==
  /\ notification \in BOOLEAN
  /\ fetched = "init"
  /\ failed = {}
  /\ next_run_time = c + PollSeconds
  /\ instances = <<>>
  /\ started = 0
  /\ missed = 0
  /\ origin = c
  /\ clock = c
  /\ SENT_REMINDERS = <<>>
  /\ notified = [i \in Ids |-> [k \in Milestones |-> 0]]
  /\ emitted = <<>>
  /\ deduped = {}
  /\ skipped = {}
  /\ polled = {}
  /\ outcome = "init"
  /\ unevaluated = 0
  /\ overdue = {}

(***************************************************************************)
(* One run of the scheduled job: the clock is read d seconds after the     *)
(* last reading, the fetch returns events, and check_and_remind runs.      *)
(***************************************************************************)
NotifierChoices == IF notification THEN {"ok", "raises"} ELSE {"absent"}

RunCycle(d, response, notifier) ==
  /\ \A i \in Ids : \A k \in Milestones : notified[i][k] < MaxRepeat
  /\ clock' = clock + d
  /\ UNCHANGED <<origin, notification, next_run_time, instances, started, missed>>
  /\ fetched' = IF response.error THEN "error"
                ELSE IF response.items = <<>> THEN "none" ELSE "items"
  /\ \E f \in {get_upcoming_events(response)} :
       IF f.raised
       THEN /\ outcome' = "raised"
            /\ UNCHANGED <<SENT_REMINDERS, notified, overdue>>
            /\ emitted' = <<>>
            /\ deduped' = {}
            /\ skipped' = {}
            /\ polled' = {}
            /\ unevaluated' = 0
       ELSE IF f.events = <<>>
       THEN /\ outcome' = "empty"
            /\ UNCHANGED <<SENT_REMINDERS, notified, overdue>>
            /\ emitted' = <<>>
            /\ deduped' = {}
            /\ skipped' = {}
            /\ polled' = {}
            /\ unevaluated' = 0
       ELSE \E r \in {check_and_remind(SENT_REMINDERS, f.events,
                                       NowLocal(clock + d), notifier)} :
               /\ SENT_REMINDERS' = r.sent
               /\ notified' = Tally(notified, r.notes)
               /\ emitted' = r.notes
               /\ deduped' = r.dedup
               /\ skipped' = r.skipped
               /\ polled' = r.polled
               /\ outcome' = IF r.raised THEN "raised" ELSE "done"
               /\ unevaluated' = r.unevaluated
               /\ overdue' = overdue \cup
                    {<<f.events[i].id, Instant(f.events[i].start)>> : i \in
                       {j \in 1..(Len(f.events) - r.unevaluated) :
                          /\ IsTimed(f.events[j])
                          /\ Instant(f.events[j].start) <= clock + d}}

(***************************************************************************)
(* Spec: any batch at each cycle, the clock never going back.              *)
(***************************************************************************)
ClockStart == StartA - Minutes(16)
ClockEnd == ClockStart + EarlyToleranceSeconds + HorizonPolls * PollSeconds
Delays == {0, PollSeconds, 5 * PollSeconds}

Init == \E c \in {ClockStart, ClockStart + EarlyToleranceSeconds} : InitAt(c)

Cycle ==
  \E d \in Delays : \E response \in Responses : \E notifier \in NotifierChoices :
    /\ clock + d <= ClockEnd
    /\ RunCycle(d, response, notifier)
    /\ UNCHANGED failed

Next == Cycle

Spec == Init /\ [][Next]_vars

(***************************************************************************)
(* SpecCadence: the scheduler's cadence.  The job first runs PollSeconds   *)
(* after the process started and then every PollSeconds; the timed event   *)
(* "a" keeps its start StartA and is in every batch, alone or with the     *)
(* all-day event "b".  FirstTte is the time to the event at the first run. *)
(***************************************************************************)
FirstTtes == (Minutes(16) .. (Minutes(17) - 1)) \cup {Minutes(3)}
FirstTte == StartA - (origin + PollSeconds)

CadenceBatches ==
  {<<Event("a", TimedA)>>,
   <<Event("a", TimedA), Event("b", DateOk)>>,
   <<Event("b", DateOk), Event("a", TimedA)>>}

CadenceInit == \E t \in FirstTtes : InitAt(StartA - t - PollSeconds)

CadenceCycle ==
  \E b \in CadenceBatches : \E notifier \in NotifierChoices :
    /\ clock + PollSeconds <= ClockEnd
    /\ RunCycle(PollSeconds, Items(b), notifier)
    /\ failed' = IF notifier = "raises"
                 THEN failed \cup {<<emitted'[k].id, emitted'[k].key>> :
                                     k \in DOMAIN emitted'}
                 ELSE failed

CadenceNext == CadenceCycle

SpecCadence == CadenceInit /\ [][CadenceNext]_vars

(***************************************************************************)
(* SpecLate: the timed event "a" keeps its start StartA while the cycles   *)
(* come late or find it missing from the fetch: a cycle runs 0, 60 or 300  *)
(* seconds after the one before, with "a", the all-day event "b", both or  *)
(* neither in its batch.                                                   *)
(***************************************************************************)
LateBatches == CadenceBatches \cup {<<>>, <<Event("b", DateOk)>>}

LateCycle ==
  \E d \in Delays : \E b \in LateBatches : \E notifier \in NotifierChoices :
    /\ clock + d <= ClockEnd
    /\ RunCycle(d, Items(b), notifier)
    /\ UNCHANGED failed

LateNext == LateCycle

SpecLate == Init /\ [][LateNext]_vars

(***************************************************************************)
(* SpecPhase: the cadence of SpecCadence, the event first seen at any      *)
(* second from two minutes before the window of the 15 minute reminder     *)
(* opens down to its start.                                                *)
(***************************************************************************)
PhaseTtes == 0 .. (Minutes(17) + PollSeconds)

PhaseInit == \E t \in PhaseTtes : InitAt(StartA - t - PollSeconds)

PhaseCycle ==
  \E b \in CadenceBatches : \E notifier \in NotifierChoices :
    /\ clock + PollSeconds <= ClockEnd
    /\ RunCycle(PollSeconds, Items(b), notifier)
    /\ UNCHANGED failed

PhaseNext == PhaseCycle

SpecPhase == PhaseInit /\ [][PhaseNext]_vars

(***************************************************************************)
(* SpecScheduler: the BackgroundScheduler with its one interval job.  The  *)
(* job is added with the scheduler's defaults, so at most max_instances    *)
(* runs of it are in progress at a time: at a fire time the scheduler      *)
(* submits a run when fewer are in progress, and otherwise logs that the   *)
(* execution is skipped; either way the next fire time is PollSeconds      *)
(* later.  A run is two steps: StartJob reads the clock, fetches and       *)
(* tests the flags of the table; FinishJob sends and sets the flags.  A    *)
(* run can take longer than the interval, by up to MaxMissed fire times    *)
(* in all.                                                                 *)
(***************************************************************************)
max_instances == 1

CanSubmitAlways(running) == TRUE

CanSubmit(running) == Len(running) < max_instances

MergeWrites(table, written) ==
  [i \in DOMAIN table \cup DOMAIN written |->
     (IF i \in DOMAIN table THEN table[i] ELSE {}) \cup
     (IF i \in DOMAIN written THEN written[i] ELSE {})]

StartJob ==
  \E b \in CadenceBatches : \E notifier \in NotifierChoices :
    /\ next_run_time <= ClockEnd
    /\ CanSubmit(instances)
    /\ \A i \in Ids : \A k \in Milestones : notified[i][k] < MaxRepeat
    /\ clock' = next_run_time
    /\ next_run_time' = next_run_time + PollSeconds
    /\ started' = started + 1
    /\ instances' = Append(instances,
         [table |-> SENT_REMINDERS,
          events |-> get_upcoming_events(Items(b)).events,
          result |-> check_and_remind(SENT_REMINDERS, get_upcoming_events(Items(b)).events,
                                      NowLocal(next_run_time), notifier)])
    /\ UNCHANGED <<notification, fetched, failed, missed, origin, SENT_REMINDERS,
                   notified, emitted, deduped, skipped, polled, outcome,
                   unevaluated, overdue>>

SkipRun ==
  /\ next_run_time <= ClockEnd
  /\ ~CanSubmit(instances)
  /\ missed < MaxMissed
  /\ missed' = missed + 1
  /\ next_run_time' = next_run_time + PollSeconds
  /\ UNCHANGED <<notification, fetched, failed, instances, started, origin, clock,
                 SENT_REMINDERS, notified, emitted, deduped, skipped, polled,
                 outcome, unevaluated, overdue>>

FinishJob ==
  \E k \in DOMAIN instances :
    /\ instances' = [j \in 1..(Len(instances) - 1) |->
                       IF j < k THEN instances[j] ELSE instances[j + 1]]
    /\ fetched' = IF instances[k].events = <<>> THEN "none" ELSE "items"
    /\ SENT_REMINDERS' = MergeWrites(SENT_REMINDERS, instances[k].result.sent)
    /\ notified' = Tally(notified, instances[k].result.notes)
    /\ emitted' = instances[k].result.notes
    /\ deduped' = instances[k].result.dedup
    /\ skipped' = instances[k].result.skipped
    /\ polled' = instances[k].result.polled
    /\ unevaluated' = instances[k].result.unevaluated
    /\ outcome' = IF instances[k].events = <<>> THEN "empty"
                  ELSE IF instances[k].result.raised THEN "raised" ELSE "done"
    /\ UNCHANGED <<notification, failed, next_run_time, started, missed, origin,
                   clock, overdue>>

SchedulerNext == StartJob \/ SkipRun \/ FinishJob

SpecScheduler == Init /\ [][SchedulerNext]_vars

(***************************************************************************)
(* Properties.                                                             *)
(***************************************************************************)
Emitted == {emitted[k] : k \in DOMAIN emitted}
EmittedFor(id) == {n \in Emitted : n.id = id}
Flags(id) == IF id \in DOMAIN SENT_REMINDERS THEN SENT_REMINDERS[id] ELSE {}
LocalDay == (clock + LOCAL_TIMEZONE) \div DaySeconds
Ran == outcome # "init"

\* C1: send_notification is called at most once for each pair of an event
\* identifier and a milestone, whatever batches the cycles are given.
C1_AtMostOnce ==
  \A i \in Ids : \A k \in Milestones : notified[i][k] <= 1

\* C1 witness: a cycle met a milestone in its window with the flag already
\* set by the one notification sent for it, and sent nothing for it.
C1_Witness ==
  \E p \in deduped : notified[p[1]][p[2]] = 1 /\ \A n \in Emitted : <<n.id, n.key>> # p

\* C2 as stated: first observed 3 minutes before its start and polled every
\* 60 seconds, the event gets no notification while time_to_event > 0; the
\* only notification is 'started', at time_to_event <= 0.
C2_Original ==
  FirstTte = Minutes(3) =>
    \A n \in EmittedFor("a") : n.key = Started /\ n.tte <= 0

\* C2 amended: first observed 3 minutes before its start and polled every
\* 60 seconds, the event never gets the 15 or the 5 minute reminder; its
\* first notification is the 1 minute reminder, in the cycle 60 seconds
\* before the start, and 'started' follows in the cycle at the start.
C2_Amended ==
  FirstTte = Minutes(3) =>
    /\ notified["a"]["15"] = 0 /\ notified["a"]["5"] = 0
    /\ \A n \in EmittedFor("a") :
         \/ n.key = "1" /\ n.tte = Minutes(1)
         \/ n.key = Started /\ n.tte = 0
    /\ notified["a"]["1"] = (IF Ran /\ TteA <= Minutes(1) THEN 1 ELSE 0)
    /\ notified["a"][Started] = (IF Ran /\ TteA <= 0 THEN 1 ELSE 0)

\* C2 witness: the late-observed event has started, after its 1 minute
\* reminder and its 'started' notification.
C2_Witness ==
  /\ FirstTte = Minutes(3)
  /\ TteA = 0
  /\ \E n \in EmittedFor("a") : n.key = Started
  /\ notified["a"]["1"] = 1

\* C3 as stated: once a cycle has evaluated a snapshot of an identifier at
\* time_to_event <= 0, no later cycle emits a threshold notification for
\* that identifier, whatever start the later snapshots carry.
C3_Original ==
  [][\A p \in overdue : \A k \in DOMAIN emitted' :
       emitted'[k].id = p[1] => emitted'[k].key \notin ThresholdKeys]_vars

\* C3 amended: once a cycle has evaluated a snapshot of an identifier at
\* time_to_event <= 0, no threshold notification is emitted, in that cycle
\* or later, for a snapshot of that identifier with the same start.
C3_Amended ==
  \A p \in overdue : \A n \in EmittedFor(p[1]) :
    n.key \in ThresholdKeys => n.at - LOCAL_TIMEZONE # p[2]

\* C3 witness: the event was evaluated after its start with the 1 minute
\* flag never set, and the cycle sent nothing for it.
C3_Witness ==
  /\ <<"a", StartA>> \in overdue
  /\ "a" \in polled
  /\ TteA < 0
  /\ "1" \notin Flags("a")
  /\ Started \in Flags("a")
  /\ EmittedFor("a") = {}

\* C4: polled every 60 seconds from 16 minutes or more before its start,
\* the event gets each of the reminders 15, 5 and 1 in exactly one cycle,
\* one whose time_to_event lies in [m min - 10 s, m min + 60 s); the poll at
\* 15m0s sends 15, the poll at 14m0s sends nothing, the poll at 5m0s sends 5.
C4_ExactlyOnce ==
  (FirstTte >= Minutes(16) /\ Ran) =>
    /\ \A j \in DOMAIN reminder_thresholds :
         LET m == reminder_thresholds[j]
             key == ThresholdKey(m)
         IN /\ notified["a"][key] =
                 (IF TteA < Minutes(m) + Minutes(1) THEN 1 ELSE 0)
            /\ \A n \in EmittedFor("a") :
                 n.key = key =>
                   /\ n.tte = TteA
                   /\ Minutes(m) - 10 <= n.tte
                   /\ n.tte < Minutes(m) + 60
                   /\ n.tte + PollSeconds >= Minutes(m) + 60
    /\ (TteA = Minutes(15) => \E n \in EmittedFor("a") : n.key = "15")
    /\ (TteA = Minutes(14) => EmittedFor("a") = {})
    /\ (TteA = Minutes(5) => \E n \in EmittedFor("a") : n.key = "5")

\* C4 witness: the three reminders were each sent once and the cycle after
\* the 1 minute reminder met it again inside its window without sending it.
C4_Witness ==
  /\ FirstTte >= Minutes(16)
  /\ \A k \in ThresholdKeys : notified["a"][k] = 1
  /\ <<"a", "1">> \in deduped

\* C5: at every reachable table and clock, running check_and_remind twice
\* with the same batch and the same now sends nothing in the second run and
\* leaves the table as the first run left it.
C5_Idempotent ==
  \A b \in Batches : \A n \in NotifierChoices :
    \A first \in {check_and_remind(SENT_REMINDERS, b, NowLocal(clock), n)} :
      \A second \in {check_and_remind(first.sent, b, NowLocal(clock), n)} :
        /\ second.notes = <<>>
        /\ second.sent = first.sent

\* C5 witness: a table with flags set, at a clock where a first run of some
\* batch sends two notifications.
C5_Witness ==
  /\ \E i \in DOMAIN SENT_REMINDERS : SENT_REMINDERS[i] # {}
  /\ \E b \in Batches :
       \E n \in NotifierChoices :
         Len(check_and_remind(SENT_REMINDERS, b, NowLocal(clock), n).notes) = 2

\* C7: an all-day event dated today gets exactly one 'all-day' notification
\* over the cycles of that day, sent by the first cycle of the day that has
\* it, however many cycles run.
C7_AllDayOnce ==
  /\ notified["b"][AllDayToday] <= 1
  /\ (notified["b"][AllDayToday] = 1 => LocalDay = EventDay)
  /\ ("b" \in polled /\ LocalDay = EventDay) =>
       /\ notified["b"][AllDayToday] = 1
       /\ \/ \E n \in EmittedFor("b") : n.key = AllDayToday
          \/ <<"b", AllDayToday>> \in deduped

\* C7 witness: a later cycle of the day has the all-day event again and
\* sends nothing, the one notification having been sent.
C7_Witness ==
  /\ LocalDay = EventDay
  /\ <<"b", AllDayToday>> \in deduped
  /\ notified["b"][AllDayToday] = 1
  /\ EmittedFor("b") = {}

\* C8 as stated: a cycle whose batch holds an event with an unparseable
\* start raises nothing and evaluates every other event of the batch.
C8_Original ==
  outcome # "raised" /\ unevaluated = 0

\* C9 as stated: evaluating an event whose dateTime cannot be parsed leaves
\* SENT_REMINDERS as it was, also for an identifier never seen before.  (A
\* cycle whose loop reached only skipped identifiers evaluated nothing but
\* unparseable dateTime snapshots.)
C9_Original ==
  [][(polled' # {} /\ polled' = skipped' /\ outcome' = "done")
       => SENT_REMINDERS' = SENT_REMINDERS]_vars

\* C9 amended: evaluating an event whose dateTime cannot be parsed sets no
\* flag and sends nothing; the only change to SENT_REMINDERS is the empty
\* entry created for an identifier never seen before.
C9_Amended ==
  \A i \in Ids : \A n \in NotifierChoices :
    \A r \in {EvalEvent(SENT_REMINDERS, Event(i, TimedBad), NowLocal(clock), n)} :
      /\ r.sent = (IF i \in DOMAIN SENT_REMINDERS THEN SENT_REMINDERS
                   ELSE SENT_REMINDERS @@ (i :> {}))
      /\ r.notes = <<>>
      /\ r.skipped
      /\ ~r.raised

\* C9 witness: a cycle skipped the unparseable event of an identifier and
\* left it an entry with no flag.
C9_Witness ==
  /\ "a" \in skipped
  /\ polled = {"a"}
  /\ "a" \in DOMAIN SENT_REMINDERS
  /\ SENT_REMINDERS["a"] = {}

\* C10: a flag that is set stays set, an entry that exists stays, and a
\* cycle creates entries only for identifiers of its batch.
C10_Monotone ==
  [][/\ \A i \in DOMAIN SENT_REMINDERS :
          i \in DOMAIN SENT_REMINDERS' /\ SENT_REMINDERS[i] \subseteq SENT_REMINDERS'[i]
     /\ DOMAIN SENT_REMINDERS' \subseteq DOMAIN SENT_REMINDERS \cup polled']_vars

\* C10 witness: an empty fetch follows cycles that set two flags of "a"
\* and its entry and flags are still there, while "b" has no entry.
C10_Witness ==
  /\ outcome = "empty"
  /\ "a" \in DOMAIN SENT_REMINDERS
  /\ {"15", Started} \subseteq SENT_REMINDERS["a"]
  /\ "b" \notin DOMAIN SENT_REMINDERS

\* C11: a notify call that raises, or a missing backend, changes nothing of
\* the engine: the flag of every milestone whose delivery failed is set, the
\* milestone was sent once and is never sent again, no cycle raises, and the
\* next cycle gives the same table, notifications and completion whichever
\* way the backend behaves.
C11_DeliveryIndependent ==
  /\ \A p \in failed : p[2] \in Flags(p[1]) /\ notified[p[1]][p[2]] = 1
  /\ outcome # "raised"
  /\ \A b \in CadenceBatches :
       \A ok \in {check_and_remind(SENT_REMINDERS, b, NowLocal(clock + PollSeconds), "ok")} :
         \A n \in Notifiers \ {"ok"} :
           check_and_remind(SENT_REMINDERS, b, NowLocal(clock + PollSeconds), n) = ok

\* C11 witness: the notify call of the 1 minute reminder raised, and the
\* next cycle met the reminder inside its window and did not send it again.
C11_Witness ==
  /\ <<"a", "1">> \in failed
  /\ <<"a", "1">> \in deduped
  /\ notified["a"]["1"] = 1
  /\ EmittedFor("a") = {}

\* C12: a cycle whose fetch returns no event, or fails with an HttpError,
\* sends nothing, raises nothing and leaves SENT_REMINDERS as it was.
C12_EmptyIsNoOp ==
  [][fetched' \in {"none", "error"} =>
       /\ SENT_REMINDERS' = SENT_REMINDERS
       /\ notified' = notified
       /\ emitted' = <<>>
       /\ outcome' = "empty"]_vars

\* C12 witness: the fetch of the last cycle failed with an HttpError; the
\* cycle ended as an empty one and the flags set before are still set.
C12_Witness ==
  /\ fetched = "error"
  /\ outcome = "empty"
  /\ emitted = <<>>
  /\ {"15", "5"} \subseteq Flags("a")
  /\ AllDayToday \in Flags("b")

\* C13 as stated: no two runs of check_and_remind are in progress at a
\* time, and a run that comes due while another is in progress is not lost:
\* it executes after it.
C13_Original ==
  /\ Len(instances) <= 1
  /\ missed = 0

\* C13 amended: no two runs of check_and_remind are in progress at a time;
\* the table a run tested is the table it writes to, so no milestone is sent
\* twice; a fire time that comes while a run is in progress starts no run,
\* then or later: every fire time so far started a run at once or was
\* skipped.
C13_Amended ==
  /\ Len(instances) <= 1
  /\ \A j \in DOMAIN instances : instances[j].table = SENT_REMINDERS
  /\ \A i \in Ids : \A k \in Milestones : notified[i][k] <= 1
  /\ started + missed = (next_run_time - origin) \div PollSeconds - 1
  /\ (instances # <<>> /\ next_run_time > clock + PollSeconds) => missed >= 1

\* C13 witness: a run is in progress that is about to send a reminder, and
\* a fire time was skipped while it ran.
C13_Witness ==
  /\ Len(instances) = 1
  /\ instances[1].result.notes # <<>>
  /\ missed >= 1
  /\ next_run_time > clock + PollSeconds

\* C14: a cycle sends at most one notification for an event, and one
\* evaluation of an event sends at most one: inside the started window it
\* sends 'started' or nothing, tests no threshold and sets no threshold
\* flag, whether or not 'started' had fired; outside it sends at most one
\* threshold reminder and never 'started'.
C14_OnePerEvent ==
  /\ \A i \in Ids : Cardinality({k \in DOMAIN emitted : emitted[k].id = i}) <= 1
  /\ \A e \in Events : \A n \in NotifierChoices :
       \A r \in {EvalEvent(SENT_REMINDERS, e, NowLocal(clock), n)} :
         /\ Len(r.notes) <= 1
         /\ IsTimed(e) =>
              IF InStartedWindow(Instant(e.start) - clock)
              THEN /\ \A k \in DOMAIN r.notes : r.notes[k].key = Started
                   /\ \A p \in r.dedup : p[2] = Started
                   /\ r.sent[e.id] \ {Started} = Flags(e.id) \ {Started}
              ELSE /\ \A k \in DOMAIN r.notes : r.notes[k].key \in ThresholdKeys
                   /\ Started \in r.sent[e.id] <=> Started \in Flags(e.id)

\* C14 witness: a cycle evaluated the same snapshot twice inside the window
\* of the 15 minute reminder and sent the reminder once.
C14_Witness ==
  /\ Cardinality({k \in DOMAIN emitted : emitted[k].key = "15"}) = 1
  /\ <<"a", "15">> \in deduped
  /\ InThresholdWindow(TteA, 15)

\* C15: with the start fixed and the clock never going back, a threshold
\* whose flag is unset when time_to_event is already below m min - 10 s
\* stays unset in every later cycle; no cycle raises, and a cycle that
\* evaluates the event inside the window of a smaller threshold, or inside
\* the started window, leaves that milestone fired.
C15_NoCatchUp ==
  [][/\ \A j \in DOMAIN reminder_thresholds :
          LET m == reminder_thresholds[j]
          IN (Ran /\ TteA < Minutes(m) - EarlyToleranceSeconds
                  /\ ThresholdKey(m) \notin Flags("a"))
               => /\ StartA - clock' < Minutes(m) - EarlyToleranceSeconds
                  /\ \A k \in DOMAIN emitted' : emitted'[k].key # ThresholdKey(m)
                  /\ "a" \in DOMAIN SENT_REMINDERS' => ThresholdKey(m) \notin SENT_REMINDERS'["a"]
     /\ outcome' # "raised"
     /\ "a" \in polled' =>
          /\ \A j \in DOMAIN reminder_thresholds :
               InThresholdWindow(StartA - clock', reminder_thresholds[j])
                 => ThresholdKey(reminder_thresholds[j]) \in SENT_REMINDERS'["a"]
          /\ InStartedWindow(StartA - clock') => Started \in SENT_REMINDERS'["a"]]_vars

\* C15 witness: the 15 and the 1 minute reminders were missed and never
\* sent, while the 5 minute reminder and 'started' were sent in their
\* windows.
C15_Witness ==
  /\ TteA <= 0
  /\ Flags("a") = {"5", Started}
  /\ notified["a"]["15"] = 0 /\ notified["a"]["1"] = 0
  /\ notified["a"]["5"] = 1 /\ notified["a"][Started] = 1

\* C16: evaluating an event whose start has no 'dateTime' sets no flag but
\* all_day_today and sends nothing but the all-day notification; evaluating
\* an event whose start has a 'dateTime' never sets all_day_today nor sends
\* the all-day notification; for either kind of start under either
\* identifier, at every reachable table and clock.
C16_PathsDisjoint ==
  /\ Flags("b") \subseteq {AllDayToday}
  /\ AllDayToday \notin Flags("a")
  /\ \A i \in Ids : \A st \in {e.start : e \in Events} : \A n \in NotifierChoices :
       \A r \in {EvalEvent(SENT_REMINDERS, Event(i, st), NowLocal(clock), n)} :
         IF st.kind = "dateTime"
         THEN /\ r.sent[i] \ Flags(i) \subseteq {Started} \cup ThresholdKeys
              /\ \A k \in DOMAIN r.notes : r.notes[k].key # AllDayToday
         ELSE /\ r.sent[i] \ Flags(i) \subseteq {AllDayToday}
              /\ \A k \in DOMAIN r.notes : r.notes[k].key = AllDayToday

\* C16 witness: one cycle sent the all-day notification for "b" and the 15
\* minute reminder for "a"; each entry holds the flag of its own path only.
C16_Witness ==
  /\ \E n \in EmittedFor("b") : n.key = AllDayToday
  /\ \E n \in EmittedFor("a") : n.key = "15"
  /\ Flags("b") = {AllDayToday}
  /\ Flags("a") = {"15"}

\* C17: the minutes a threshold reminder reports are the whole minutes of
\* time_to_event, and they are m - 1 or m for threshold m; the message reads
\* "less than a minute" exactly when they are 0, which happens only for
\* threshold 1, with time_to_event in [50 s, 60 s).
C17_MinutesNearThreshold ==
  \A n \in EmittedFor("a") : \A j \in DOMAIN reminder_thresholds :
    LET m == reminder_thresholds[j]
    IN n.key = ThresholdKey(m) =>
         /\ n.tte = TteA
         /\ n.minutes * 60 <= TteA /\ TteA < n.minutes * 60 + 60
         /\ n.minutes \in {m - 1, m}
         /\ n.text = "less than a minute" <=> n.minutes = 0
         /\ n.minutes = 0 => (m = 1 /\ 50 <= TteA /\ TteA < 60)
         /\ (m = 1 /\ 50 <= TteA /\ TteA < 60) => n.minutes = 0

\* C17 witness: the 1 minute reminder was sent 55 seconds before the start
\* and reads "less than a minute".
C17_Witness ==
  /\ TteA = 55
  /\ \E n \in EmittedFor("a") :
       n.key = "1" /\ n.minutes = 0 /\ n.text = "less than a minute"

\* C18 as stated: evaluating an event of identifier i leaves the entry of
\* every other identifier as it was, and what a cycle sends for i and
\* writes to the entry of i is what it would send and write with the event
\* alone in the batch, whichever other events the batch holds and in
\* whichever order.
C18_Original ==
  /\ \A e \in Events : \A n \in NotifierChoices :
       \A r \in {EvalEvent(SENT_REMINDERS, e, NowLocal(clock), n)} :
         \A j \in DOMAIN r.sent \ {e.id} :
           j \in DOMAIN SENT_REMINDERS /\ r.sent[j] = SENT_REMINDERS[j]
  /\ \A b \in Batches : \A k \in DOMAIN b : \A n \in NotifierChoices :
       \A whole \in {check_and_remind(SENT_REMINDERS, b, NowLocal(clock), n)} :
         \A alone \in {check_and_remind(SENT_REMINDERS, <<b[k]>>, NowLocal(clock), n)} :
           /\ {whole.notes[x] : x \in {y \in DOMAIN whole.notes : whole.notes[y].id = b[k].id}}
                = {alone.notes[x] : x \in DOMAIN alone.notes}
           /\ b[k].id \in DOMAIN whole.sent
           /\ whole.sent[b[k].id] = alone.sent[b[k].id]

\* C19: at no time_to_event do the windows of two thresholds both hold, nor
\* the window of a threshold and the started window; so an evaluation of a
\* timed event finds at most one milestone within tolerance, sent or
\* already fired.
C19_WindowsDisjoint ==
  /\ Cardinality({j \in DOMAIN reminder_thresholds :
                    InThresholdWindow(TteA, reminder_thresholds[j])})
       + (IF InStartedWindow(TteA) THEN 1 ELSE 0) <= 1
  /\ Cardinality({n.key : n \in EmittedFor("a")}
                  \cup {p[2] : p \in {q \in deduped : q[1] = "a"}}) <= 1

\* C19 witness: the event is evaluated at the first second of the window
\* of the 15 minute reminder; that reminder is sent and no other milestone
\* is within tolerance.
C19_Witness ==
  /\ TteA = Minutes(15) - EarlyToleranceSeconds
  /\ \E n \in EmittedFor("a") : n.key = "15"
  /\ ~InThresholdWindow(TteA, 5)
  /\ deduped = {}

====
